---- MODULE Spec2Model ----
(***************************************************************************)
(* HCP interaction log: the chat pipeline (route_intent -> extract ->      *)
(* compliance -> respond), the log / edit / list endpoints and the         *)
(* hcp_interactions table, modelled from src/main.py.                      *)
(*                                                                         *)
(* Python values are tagged records [t, v]; a dict is a sequence of        *)
(* <<key, value>> pairs in insertion order; a str is a TLA+ string.  The   *)
(* three non-ASCII glyphs of the assistant message (check mark, bullet,    *)
(* warning sign) are written "[ok]", "*" and "[!]".                        *)
(***************************************************************************)
EXTENDS Integers, Sequences, FiniteSets, TLC

VARIABLES
    client,     \* whether GROQ_API_KEY was set at process start (main.py:39)
    stub,       \* the deterministic model: its reply to each of the two prompts
    now,        \* datetime.utcnow(), in ticks
    rows,       \* the hcp_interactions table: a sequence of rows in insertion order
    nextId,     \* the next value of the table's primary-key sequence
    pc,         \* position of the chat invocation in flight
    state,      \* AgentState of the chat invocation in flight
    ran,        \* the graph nodes the invocation in flight has entered, in order
    last,       \* the request that completed last, with its response
    first       \* the first chat that returned: its message and its response

vars == <<client, stub, now, rows, nextId, pc, state, ran, last, first>>

-----------------------------------------------------------------------------
(* Bounds of the model *)

MaxClock == 1
MaxRows == 2
MaxStoreRows == 1
MaxTail == 1

(* Constants of the program *)

SummaryCap == 180
NotesCap == 400
ListLimit == 100

-----------------------------------------------------------------------------
(* Python values *)

None == [t |-> "none", v |-> 0]
S(s) == [t |-> "str", v |-> s]
I(n) == [t |-> "int", v |-> n]
L(q) == [t |-> "list", v |-> q]
D(q) == [t |-> "dict", v |-> q]
DT(n) == [t |-> "datetime", v |-> n]
B(b) == [t |-> "bool", v |-> b]

Ok(x) == [ok |-> TRUE, val |-> x]
Raise(e) == [ok |-> FALSE, err |-> e]

Min(a, b) == IF a < b THEN a ELSE b

\* bool(x)
Truthy(x) ==
    CASE x.t = "none" -> FALSE
      [] x.t = "str" -> x.v # ""
      [] x.t = "int" -> x.v # 0
      [] x.t = "bool" -> x.v
      [] x.t = "list" -> Len(x.v) # 0
      [] x.t = "dict" -> Len(x.v) # 0
      [] OTHER -> TRUE

\* x or y
PyOr(x, y) == IF Truthy(x) THEN x ELSE y

\* whether x has a .get method: only a dict does
HasGet(x) == x.t = "dict"

HasKey(d, k) == \E i \in 1..Len(d.v) : d.v[i][1] = k

\* d.get(k, dflt), for a dict d
Get(d, k, dflt) ==
    IF HasKey(d, k)
    THEN d.v[CHOOSE i \in 1..Len(d.v) : d.v[i][1] = k][2]
    ELSE dflt

\* d[k] = x, for a dict d
SetItem(d, k, x) ==
    IF HasKey(d, k)
    THEN D([i \in 1..Len(d.v) |-> IF d.v[i][1] = k THEN <<k, x>> ELSE d.v[i]])
    ELSE D(Append(d.v, <<k, x>>))

\* s[:n]
Prefix(s, n) == SubSeq(s, 1, Min(n, Len(s)))

\* sub in s
Contains(s, sub) ==
    \E i \in 1..(Len(s) - Len(sub) + 1) : SubSeq(s, i, i + Len(sub) - 1) = sub

UpperCase == "ABCDEFGHIJKLMNOPQRSTUVWXYZ"
LowerCase == "abcdefghijklmnopqrstuvwxyz"

LowerChar(c) ==
    IF \E i \in 1..Len(UpperCase) : SubSeq(UpperCase, i, i) = c
    THEN LET i == CHOOSE j \in 1..Len(UpperCase) : SubSeq(UpperCase, j, j) = c
         IN SubSeq(LowerCase, i, i)
    ELSE c

RECURSIVE Lower(_)
\* s.lower()
Lower(s) ==
    IF Len(s) = 0 THEN ""
    ELSE IF Len(s) = 1 THEN LowerChar(s)
    ELSE Lower(SubSeq(s, 1, Len(s) \div 2)) \o Lower(SubSeq(s, Len(s) \div 2 + 1, Len(s)))

RECURSIVE Repeat(_, _)
\* c * n
Repeat(c, n) ==
    IF n <= 0 THEN ""
    ELSE IF n = 1 THEN c
    ELSE Repeat(c, n \div 2) \o Repeat(c, n - n \div 2)

RECURSIVE JsonDumps(_)
RECURSIVE DumpItems(_)
RECURSIVE DumpElems(_)
\* json.dumps(x, ensure_ascii=False), for strings that need no escaping
JsonDumps(x) ==
    CASE x.t = "none" -> "null"
      [] x.t = "str" -> "\"" \o x.v \o "\""
      [] x.t = "int" -> ToString(x.v)
      [] x.t = "list" -> "[" \o DumpElems(x.v) \o "]"
      [] x.t = "dict" -> "{" \o DumpItems(x.v) \o "}"

DumpItems(q) ==
    IF Len(q) = 0 THEN ""
    ELSE "\"" \o q[1][1] \o "\": " \o JsonDumps(q[1][2])
         \o (IF Len(q) = 1 THEN "" ELSE ", " \o DumpItems(Tail(q)))

DumpElems(q) ==
    IF Len(q) = 0 THEN ""
    ELSE JsonDumps(q[1]) \o (IF Len(q) = 1 THEN "" ELSE ", " \o DumpElems(Tail(q)))

\* str(x), as an f-string formats x
PyStr(x) ==
    CASE x.t = "str" -> x.v
      [] x.t = "none" -> "None"
      [] OTHER -> JsonDumps(x)

-----------------------------------------------------------------------------
(* The model's replies.  json.loads is given by its value on each of them. *)

E_text == "Sure! Dr. Smith liked Drug X."
E_empty == ""
E_full == "{\"summary\": \"Met Dr. Smith about Drug X\", \"entities\": {\"hcp_name\": \"Dr. Smith\", \"specialty\": \"\", \"organization\": \"\", \"channel\": \"email\", \"purpose\": \"\", \"products_discussed\": \"Drug X\", \"key_points\": \"\", \"outcome\": \"good\", \"next_steps\": \"\", \"follow_up_date\": \"\"}}"
E_blank == "{\"summary\": \"\", \"entities\": {\"hcp_name\": \"\", \"channel\": \"\"}}"
E_null == "{\"summary\": \"Visit\", \"entities\": {\"hcp_name\": null, \"channel\": null}}"
E_obj == "{}"
E_arr == "[]"
E_entstr == "{\"summary\": \"Visit\", \"entities\": \"none\"}"

ExtractReplies == {E_text, E_empty, E_full, E_blank, E_null, E_obj, E_arr, E_entstr}

K_text == "No issues found."
K_long == Repeat("x", NotesCap + MaxTail)
K_none == "{\"flags\": [], \"severity\": \"low\", \"notes\": \"\"}"
K_two == "{\"flags\": [\"off_label\", \"pii_risk\"], \"severity\": \"high\", \"notes\": \"check\"}"
K_sentinel == "{\"flags\": [\"parse_error\"], \"severity\": \"medium\", \"notes\": \"\"}"
K_nosev == "{\"flags\": [\"safety_missing\"]}"
K_arr == "[1]"

ComplianceReplies == {K_text, K_long, K_none, K_two, K_sentinel, K_nosev, K_arr}

\* json.loads(out): Ok(value), or Raise for text that is not JSON
JsonLoads(out) ==
    CASE out = E_full ->
            Ok(D(<< <<"summary", S("Met Dr. Smith about Drug X")>>,
                    <<"entities", D(<< <<"hcp_name", S("Dr. Smith")>>,
                                       <<"specialty", S("")>>,
                                       <<"organization", S("")>>,
                                       <<"channel", S("email")>>,
                                       <<"purpose", S("")>>,
                                       <<"products_discussed", S("Drug X")>>,
                                       <<"key_points", S("")>>,
                                       <<"outcome", S("good")>>,
                                       <<"next_steps", S("")>>,
                                       <<"follow_up_date", S("")>> >>)>> >>))
      [] out = E_blank ->
            Ok(D(<< <<"summary", S("")>>,
                    <<"entities", D(<< <<"hcp_name", S("")>>, <<"channel", S("")>> >>)>> >>))
      [] out = E_null ->
            Ok(D(<< <<"summary", S("Visit")>>,
                    <<"entities", D(<< <<"hcp_name", None>>, <<"channel", None>> >>)>> >>))
      [] out = E_obj -> Ok(D(<< >>))
      [] out = E_arr -> Ok(L(<< >>))
      [] out = E_entstr ->
            Ok(D(<< <<"summary", S("Visit")>>, <<"entities", S("none")>> >>))
      [] out = K_none ->
            Ok(D(<< <<"flags", L(<< >>)>>, <<"severity", S("low")>>, <<"notes", S("")>> >>))
      [] out = K_two ->
            Ok(D(<< <<"flags", L(<<S("off_label"), S("pii_risk")>>)>>,
                    <<"severity", S("high")>>, <<"notes", S("check")>> >>))
      [] out = K_sentinel ->
            Ok(D(<< <<"flags", L(<<S("parse_error")>>)>>,
                    <<"severity", S("medium")>>, <<"notes", S("")>> >>))
      [] out = K_nosev -> Ok(D(<< <<"flags", L(<<S("safety_missing")>>)>> >>))
      [] out = K_arr -> Ok(L(<<I(1)>>))
      [] out \in {E_text, E_empty, K_text, K_long} -> Raise("JSONDecodeError")

-----------------------------------------------------------------------------
(* Dates.  A datetime is DT(n), n seconds after 1970-01-01T00:00:00. *)

Digits == "0123456789"

IsDigit(c) == \E i \in 1..Len(Digits) : SubSeq(Digits, i, i) = c

DigitVal(c) == (CHOOSE i \in 1..Len(Digits) : SubSeq(Digits, i, i) = c) - 1

\* dt.isoformat(), for a datetime in the first minute
IsoFormat(dt) ==
    "1970-01-01T00:00:" \o (IF dt.v < 10 THEN "0" ELSE "") \o ToString(dt.v)

RECURSIVE ReplaceZ(_)
\* s.replace("Z", "+00:00")
ReplaceZ(s) ==
    IF Len(s) = 0 THEN ""
    ELSE IF Len(s) = 1 THEN (IF s = "Z" THEN "+00:00" ELSE s)
    ELSE ReplaceZ(SubSeq(s, 1, Len(s) \div 2)) \o ReplaceZ(SubSeq(s, Len(s) \div 2 + 1, Len(s)))

\* datetime.fromisoformat(s).replace(tzinfo=None), on the strings the model
\* uses: the seconds of the first minute, with or without a +00:00 offset;
\* every other string of the model is one fromisoformat rejects
FromIsoFormat(s) ==
    LET base == IF Len(s) = 25 /\ SubSeq(s, 20, 25) = "+00:00" THEN SubSeq(s, 1, 19) ELSE s
    IN IF /\ Len(base) = 19
          /\ SubSeq(base, 1, 17) = "1970-01-01T00:00:"
          /\ IsDigit(SubSeq(base, 18, 18))
          /\ IsDigit(SubSeq(base, 19, 19))
          /\ DigitVal(SubSeq(base, 18, 18)) < 6
       THEN Ok(DT(10 * DigitVal(SubSeq(base, 18, 18)) + DigitVal(SubSeq(base, 19, 19))))
       ELSE Raise("ValueError")

utcnow == DT(now)

-----------------------------------------------------------------------------
(* The completion client and the tools *)

\* groq_chat(system, user): system names the prompt, "extract" or "compliance"
groq_chat(system, user) ==
    IF ~client
    THEN Raise("HTTPException 500: GROQ_API_KEY not set on backend")
    ELSE Ok(stub[system])

tool_suggest_next_best_action(extracted) ==
    LET channel == Lower(PyOr(Get(extracted, "channel", None), S("")).v)
    IN D(<< <<"next_best_action",
              IF channel \in {"email", "whatsapp"}
              THEN S("Send a balanced follow-up message with approved materials and confirm next meeting date.")
              ELSE S("Schedule a follow-up visit/call and share approved clinical summary + address any objections.")>> >>)

tool_compliance_check_llm(text) ==
    LET out == groq_chat("compliance", "Text:\n" \o text \o "\nReturn JSON only.")
    IN IF ~out.ok THEN out
       ELSE LET parsed == JsonLoads(out.val)
            IN IF parsed.ok THEN parsed
               ELSE Ok(D(<< <<"flags", L(<<S("parse_error")>>)>>,
                            <<"severity", S("low")>>,
                            <<"notes", S(Prefix(out.val, NotesCap))>> >>))

tool_summarize_and_extract(text) ==
    LET out == groq_chat("extract", "Interaction text:\n" \o text \o "\nReturn JSON only.")
    IN IF ~out.ok THEN out
       ELSE LET parsed == JsonLoads(out.val)
            IN IF parsed.ok THEN parsed
               ELSE Ok(D(<< <<"summary", S(Prefix(text, SummaryCap))>>,
                            <<"entities", D(<< >>)>> >>))

-----------------------------------------------------------------------------
(* AgentState and the graph nodes.  A key the TypedDict does not hold yet   *)
(* reads as None: the nodes read with state.get(k) or a default.  A node    *)
(* returns Ok(state) or the exception it raises.                            *)

EntityFields ==
    <<"hcp_name", "specialty", "organization", "channel", "purpose",
      "products_discussed", "key_points", "outcome", "next_steps", "follow_up_date">>

node_route_intent(st) ==
    LET text == Lower(st.user_message.v)
    IN IF Contains(text, "edit") \/ Contains(text, "change") \/ Contains(text, "update")
       THEN Ok([st EXCEPT !.intent = S("edit")])
       ELSE Ok([st EXCEPT !.intent = S("log")])

\* node_extract filling key_points from the notes of the record logged last
BuildDraftFromHistory(entities, summary, user_message, stamp) ==
    D(<< <<"hcp_name", Get(entities, "hcp_name", S(""))>>,
         <<"interaction_datetime", S(IsoFormat(stamp))>>,
         <<"channel", PyOr(Get(entities, "channel", S("in_person")), S("in_person"))>>,
         <<"key_points", IF Len(rows) > 0 THEN rows[Len(rows)].raw_notes
                         ELSE Get(entities, "key_points", S(""))>>,
         <<"raw_notes", user_message>>,
         <<"ai_summary", summary>>,
         <<"ai_entities_json", S(JsonDumps(entities))>>,
         <<"compliance_flags_json", S("")>> >>)

\* the draft of node_extract, for a dict entities
BuildDraft(entities, summary, user_message, stamp) ==
    D(<< <<"hcp_name", Get(entities, "hcp_name", S(""))>>,
         <<"specialty", Get(entities, "specialty", S(""))>>,
         <<"organization", Get(entities, "organization", S(""))>>,
         <<"interaction_datetime", S(IsoFormat(stamp))>>,
         <<"channel", PyOr(Get(entities, "channel", S("in_person")), S("in_person"))>>,
         <<"purpose", Get(entities, "purpose", S(""))>>,
         <<"products_discussed", Get(entities, "products_discussed", S(""))>>,
         <<"key_points", Get(entities, "key_points", S(""))>>,
         <<"outcome", Get(entities, "outcome", S(""))>>,
         <<"next_steps", Get(entities, "next_steps", S(""))>>,
         <<"follow_up_date", Get(entities, "follow_up_date", S(""))>>,
         <<"raw_notes", user_message>>,
         <<"ai_summary", summary>>,
         <<"ai_entities_json", S(JsonDumps(entities))>>,
         <<"compliance_flags_json", S("")>> >>)

node_extract(st) ==
    LET result == tool_summarize_and_extract(st.user_message.v)
    IN IF ~result.ok THEN result
       ELSE IF ~HasGet(result.val)
       THEN Raise("AttributeError: result.get")
       ELSE LET entities == PyOr(Get(result.val, "entities", None), D(<< >>))
                summary == PyOr(Get(result.val, "summary", None), S(""))
            IN IF ~HasGet(entities)
               THEN Raise("AttributeError: entities.get")
               ELSE Ok([st EXCEPT !.extracted =
                          D(<< <<"draft", BuildDraft(entities, summary, st.user_message, utcnow)>> >>)])

\* (state.get("extracted") or {}).get("draft") or {}
DraftOf(st) == PyOr(Get(PyOr(st.extracted, D(<< >>)), "draft", None), D(<< >>))

node_compliance(st) ==
    LET draft == DraftOf(st)
        combined == PyStr(Get(draft, "raw_notes", S(""))) \o "\nSummary: "
                    \o PyStr(Get(draft, "ai_summary", S("")))
        compliance == tool_compliance_check_llm(combined)
    IN IF ~compliance.ok THEN compliance
       ELSE LET stored == SetItem(draft, "compliance_flags_json", S(JsonDumps(compliance.val)))
            IN Ok([st EXCEPT !.compliance = compliance.val,
                             !.extracted = SetItem(st.extracted, "draft", stored)])

RECURSIVE JoinStrs(_, _)
JoinStrs(sep, q) ==
    IF Len(q) = 0 THEN ""
    ELSE q[1].v \o (IF Len(q) = 1 THEN "" ELSE sep \o JoinStrs(sep, Tail(q)))

\* sep.join(x): x must be an iterable of str
Join(sep, x) ==
    CASE x.t = "list" ->
            IF \A i \in 1..Len(x.v) : x.v[i].t = "str"
            THEN Ok(JoinStrs(sep, x.v))
            ELSE Raise("TypeError: join")
      [] x.t = "str" -> Ok(JoinStrs(sep, [i \in 1..Len(x.v) |-> S(SubSeq(x.v, i, i))]))
      [] x.t = "dict" -> Ok(JoinStrs(sep, [i \in 1..Len(x.v) |-> S(x.v[i][1])]))
      [] OTHER -> Raise("TypeError: join")

AckLine == "[ok] I extracted a draft interaction and filled the form fields.\n"
NbaLine(nba) == "* Next best action: " \o nba \o "\n"
WarnLine(sev, joined) == "[!] Compliance flags (" \o sev \o "): " \o joined \o "\n"
ClosingLine ==
    "If this looks correct, click **Save Interaction** in the UI. If not, edit the fields and save."

\* node_respond without the exemption of the sentinel
ShowsWarningAlways(flags) == Truthy(flags)

\* whether node_respond appends the warning line
ShowsWarning(flags) == Truthy(flags) /\ flags # L(<<S("parse_error")>>)

node_respond(st) ==
    LET draft == DraftOf(st)
        nba == Get(tool_suggest_next_best_action(draft), "next_best_action", S(""))
    IN IF ~HasGet(PyOr(st.compliance, D(<< >>)))
       THEN Raise("AttributeError: compliance.get")
       ELSE LET flags == PyOr(Get(PyOr(st.compliance, D(<< >>)), "flags", None), L(<< >>))
                sev == PyOr(Get(PyOr(st.compliance, D(<< >>)), "severity", None), S("low"))
                head == AckLine \o NbaLine(PyStr(nba))
            IN IF ShowsWarning(flags)
               THEN LET joined == Join(", ", flags)
                    IN IF ~joined.ok THEN joined
                       ELSE Ok([st EXCEPT !.assistant_message =
                                  S(head \o WarnLine(PyStr(sev), joined.val) \o ClosingLine)])
               ELSE Ok([st EXCEPT !.assistant_message = S(head \o ClosingLine)])

\* the compiled graph: set_entry_point and add_edge
END == "__end__"
EntryPoint == "route_intent"
Edges ==
    [route_intent |-> "extract", extract |-> "compliance",
     compliance |-> "respond", respond |-> END]

\* the state agent_chat hands to the graph
NewState(thread_id, message) ==
    [thread_id |-> PyOr(thread_id, S("default")), user_message |-> S(message),
     intent |-> None, extracted |-> None, compliance |-> None,
     assistant_message |-> None, raised |-> ""]

\* the body agent_chat returns from the graph's final state
ChatBody(out) ==
    D(<< <<"assistant_message", IF out.assistant_message.t = "none" THEN S("Done.")
                                ELSE out.assistant_message>>,
         <<"draft_interaction", PyOr(Get(PyOr(out.extracted, D(<< >>)), "draft", None), D(<< >>))>> >>)

-----------------------------------------------------------------------------
(* The hcp_interactions table and the tools that write it.  A row is a      *)
(* record of the columns of class Interaction.                              *)

\* the fields tool_edit_interaction may set
allowed ==
    {"hcp_name", "specialty", "organization", "interaction_datetime", "channel", "purpose",
     "products_discussed", "key_points", "outcome", "next_steps", "follow_up_date",
     "raw_notes", "ai_summary", "ai_entities_json", "compliance_flags_json"}

Ids(table) == {table[i].id.v : i \in 1..Len(table)}

\* the query without its filter: the first row when no row has the identifier
FindOrFirst(table, id) ==
    IF id \in Ids(table) THEN CHOOSE i \in 1..Len(table) : table[i].id.v = id
    ELSE IF Len(table) > 0 THEN 1 ELSE 0

\* db.query(Interaction).filter(Interaction.id == id).first(): its index, 0 for None
Find(table, id) ==
    IF id \in Ids(table) THEN CHOOSE i \in 1..Len(table) : table[i].id.v = id ELSE 0

\* the row tool_log_interaction adds for a draft, under the identifier the table assigns
NewRow(draft, id) ==
    LET dt_iso == Get(draft, "interaction_datetime", None)
        parsed == IF Truthy(dt_iso) THEN FromIsoFormat(ReplaceZ(dt_iso.v)) ELSE Raise("")
        dt == IF parsed.ok THEN parsed.val ELSE utcnow
    IN [id |-> I(id),
        hcp_name |-> Get(draft, "hcp_name", S("")),
        specialty |-> Get(draft, "specialty", S("")),
        organization |-> Get(draft, "organization", S("")),
        interaction_datetime |-> dt,
        channel |-> Get(draft, "channel", S("in_person")),
        purpose |-> Get(draft, "purpose", S("")),
        products_discussed |-> Get(draft, "products_discussed", S("")),
        key_points |-> Get(draft, "key_points", S("")),
        outcome |-> Get(draft, "outcome", S("")),
        next_steps |-> Get(draft, "next_steps", S("")),
        follow_up_date |-> Get(draft, "follow_up_date", S("")),
        raw_notes |-> Get(draft, "raw_notes", S("")),
        ai_summary |-> Get(draft, "ai_summary", S("")),
        ai_entities_json |-> Get(draft, "ai_entities_json", S("")),
        compliance_flags_json |-> Get(draft, "compliance_flags_json", S("")),
        created_at |-> utcnow,
        updated_at |-> utcnow]

\* db.add(row); db.commit()
tool_log_interaction(table, draft, id) == Append(table, NewRow(draft, id))

RECURSIVE ApplyPatch(_, _)
\* the loop of tool_edit_interaction over patch.items()
ApplyPatch(row, items) ==
    IF Len(items) = 0 THEN row
    ELSE LET k == items[1][1]
             v == items[1][2]
             rest == Tail(items)
         IN IF k \notin allowed THEN ApplyPatch(row, rest)
            ELSE IF k = "interaction_datetime" /\ v.t = "str"
            THEN LET vdt == FromIsoFormat(ReplaceZ(v.v))
                 IN IF vdt.ok THEN ApplyPatch([row EXCEPT ![k] = vdt.val], rest)
                    ELSE ApplyPatch(row, rest)
            ELSE ApplyPatch([row EXCEPT ![k] = IF v.t = "none" THEN S("") ELSE v], rest)

\* tool_edit_interaction stamping updated_at only when the patch changed a field
EditedRowIfChanged(row, patch) ==
    IF ApplyPatch(row, patch.v) = row THEN row
    ELSE [ApplyPatch(row, patch.v) EXCEPT !.updated_at = utcnow]

\* the row tool_edit_interaction commits for the row it found
EditedRow(row, patch) == [ApplyPatch(row, patch.v) EXCEPT !.updated_at = utcnow]

\* tool_edit_interaction applying the patch to every row once the identifier is found
tool_edit_every_row(table, interaction_id, patch) ==
    IF Find(table, interaction_id) = 0
    THEN [ret |-> D(<< <<"ok", B(FALSE)>>, <<"error", S("not_found")>> >>), table |-> table]
    ELSE [ret |-> D(<< <<"ok", B(TRUE)>> >>),
          table |-> [j \in 1..Len(table) |-> EditedRow(table[j], patch)]]

\* tool_edit_interaction(db, interaction_id, patch): its return value and the table after it
tool_edit_interaction(table, interaction_id, patch) ==
    LET i == Find(table, interaction_id)
    IN IF i = 0
       THEN [ret |-> D(<< <<"ok", B(FALSE)>>, <<"error", S("not_found")>> >>), table |-> table]
       ELSE [ret |-> D(<< <<"ok", B(TRUE)>> >>),
             table |-> [table EXCEPT ![i] = EditedRow(table[i], patch)]]

\* x.isoformat() if x else None
IsoOrNone(x) == IF x.t = "datetime" THEN S(IsoFormat(x)) ELSE None

to_dict(row) ==
    D(<< <<"id", row.id>>,
         <<"hcp_name", row.hcp_name>>,
         <<"specialty", row.specialty>>,
         <<"organization", row.organization>>,
         <<"interaction_datetime", IsoOrNone(row.interaction_datetime)>>,
         <<"channel", row.channel>>,
         <<"purpose", row.purpose>>,
         <<"products_discussed", row.products_discussed>>,
         <<"key_points", row.key_points>>,
         <<"outcome", row.outcome>>,
         <<"next_steps", row.next_steps>>,
         <<"follow_up_date", row.follow_up_date>>,
         <<"raw_notes", row.raw_notes>>,
         <<"ai_summary", row.ai_summary>>,
         <<"ai_entities_json", row.ai_entities_json>>,
         <<"compliance_flags_json", row.compliance_flags_json>>,
         <<"created_at", IsoOrNone(row.created_at)>>,
         <<"updated_at", IsoOrNone(row.updated_at)>> >>)

\* the draft log_interaction saves for a request draft, or the exception it raises
FilledDraft(draft) ==
    LET needs == ~Truthy(Get(draft, "ai_summary", None))
                 \/ ~Truthy(Get(draft, "ai_entities_json", None))
        result == IF needs
                  THEN tool_summarize_and_extract(PyOr(Get(draft, "raw_notes", S("")), S("")).v)
                  ELSE Ok(D(<< >>))
    IN IF ~result.ok THEN result
       ELSE IF needs /\ ~HasGet(result.val)
       THEN Raise("AttributeError: result.get")
       ELSE LET entities == PyOr(Get(result.val, "entities", None), D(<< >>))
                d1 == IF needs
                      THEN SetItem(SetItem(draft, "ai_summary",
                                PyOr(Get(draft, "ai_summary", None),
                                     PyOr(Get(result.val, "summary", None), S("")))),
                             "ai_entities_json",
                                PyOr(Get(draft, "ai_entities_json", None), S(JsonDumps(entities))))
                      ELSE draft
            IN IF Truthy(Get(d1, "compliance_flags_json", None))
               THEN Ok(d1)
               ELSE LET compliance ==
                            tool_compliance_check_llm(
                                PyOr(Get(d1, "raw_notes", None), S("")).v \o "\n"
                                \o PyOr(Get(d1, "ai_summary", None), S("")).v)
                    IN IF ~compliance.ok THEN compliance
                       ELSE Ok(SetItem(d1, "compliance_flags_json", S(JsonDumps(compliance.val))))

\* the orderings .order_by(created_at.desc()) may produce: rows of equal created_at
\* come in an order the database chooses
Orderings(table) ==
    {p \in [1..Len(table) -> 1..Len(table)] :
        /\ \A i, j \in 1..Len(table) : i # j => p[i] # p[j]
        /\ \A i, j \in 1..Len(table) :
              i < j => table[p[i]].created_at.v >= table[p[j]].created_at.v}

\* the items of list_interactions under an ordering
ListItems(table, p) ==
    [i \in 1..Min(ListLimit, Len(table)) |-> to_dict(table[p[i]])]

-----------------------------------------------------------------------------
(* The requests the model issues *)

M_log == "Met Dr. Smith, discussed Drug X, good reception"
M_edit == "Please UPDATE the Credit note"
M_long == Repeat("a", SummaryCap + MaxTail)

Messages == {M_log, M_edit, M_long}
CoreMessages == {M_log, M_edit}

ThreadIds == {None, S("t1")}

\* InteractionDraft(...).dict(): every field present, the strings defaulted
MkDraft(hcp_name, when, raw_notes, ai_summary, ai_entities_json, compliance_flags_json) ==
    D(<< <<"hcp_name", S(hcp_name)>>,
         <<"specialty", S("")>>,
         <<"organization", S("")>>,
         <<"interaction_datetime", when>>,
         <<"channel", S("in_person")>>,
         <<"purpose", S("")>>,
         <<"products_discussed", S("")>>,
         <<"key_points", S("")>>,
         <<"outcome", S("")>>,
         <<"next_steps", S("")>>,
         <<"follow_up_date", S("")>>,
         <<"raw_notes", S(raw_notes)>>,
         <<"ai_summary", S(ai_summary)>>,
         <<"ai_entities_json", S(ai_entities_json)>>,
         <<"compliance_flags_json", S(compliance_flags_json)>> >>)

D_notes == MkDraft("", None, M_log, "", "", "")
D_filled ==
    MkDraft("Dr. Lee", S("1970-01-01T00:00:07Z"), "Call with Dr. Lee", "Own summary",
            "{\"hcp_name\": \"Dr. Lee\"}", "{\"flags\": []}")
D_summary == MkDraft("", S("tomorrow"), "Short visit", "Own summary", "", "")

LogDrafts == {D_notes, D_filled, D_summary}
CoreDrafts == {D_notes}

P_unknown ==
    D(<< <<"nickname", S("x")>>, <<"id", I(9)>>, <<"created_at", S("1970-01-01T00:00:09")>> >>)
P_baddate == D(<< <<"interaction_datetime", S("tomorrow")>> >>)
P_fields ==
    D(<< <<"hcp_name", S("Dr. Lee")>>, <<"raw_notes", None>>,
         <<"interaction_datetime", S("1970-01-01T00:00:09Z")>> >>)
P_mixed ==
    D(<< <<"nickname", S("x")>>, <<"channel", S("call")>>,
         <<"interaction_datetime", S("tomorrow")>> >>)

Patches == {P_unknown, P_baddate, P_fields, P_mixed}
CorePatches == {P_mixed}

CoreEditIds == {1, MaxRows + 1}
StoreEditIds == 1..(MaxStoreRows + 1)

-----------------------------------------------------------------------------
(* The state machine *)

NoState ==
    [thread_id |-> None, user_message |-> None, intent |-> None, extracted |-> None,
     compliance |-> None, assistant_message |-> None, raised |-> ""]

NoResponse == [status |-> 0]

Stubs == [extract : ExtractReplies, compliance : ComplianceReplies]

CoreStubs ==
    {[extract |-> E_text, compliance |-> K_text],
     [extract |-> E_full, compliance |-> K_two],
     [extract |-> E_arr, compliance |-> K_arr]}

\* without a client groq_chat raises before any reply is read (main.py:123),
\* so one stub stands for all of them there
InitWith(stubs) ==
    /\ client \in BOOLEAN
    /\ stub \in IF client THEN stubs ELSE {[extract |-> E_text, compliance |-> K_text]}
    /\ now = 0
    /\ rows = << >>
    /\ nextId = 1
    /\ pc = "idle"
    /\ state = NoState
    /\ ran = << >>
    /\ last = [kind |-> "none", status |-> 0]
    /\ first = NoResponse

Init == InitWith(CoreStubs)
InitChat == InitWith(Stubs)

\* the clock advances
Tick ==
    /\ now < MaxClock
    /\ now' = now + 1
    /\ UNCHANGED <<client, stub, rows, nextId, pc, state, ran, last, first>>

\* agent_chat, up to agent_app.invoke
ChatStart(thread_id, message) ==
    /\ pc = "idle"
    /\ state' = NewState(thread_id, message)
    /\ pc' = EntryPoint
    /\ ran' = << >>
    /\ UNCHANGED <<client, stub, now, rows, nextId, last, first>>

\* the graph with a conditional edge: an edit intent goes from route_intent to compliance
RunNodeByIntent(name, r) ==
    /\ pc = name
    /\ ran' = Append(ran, name)
    /\ IF r.ok
       THEN /\ state' = r.val
            /\ pc' = IF name = "route_intent" /\ r.val.intent = S("edit")
                     THEN "compliance" ELSE Edges[name]
       ELSE state' = [state EXCEPT !.raised = r.err] /\ pc' = "raised"
    /\ UNCHANGED <<client, stub, now, rows, nextId, last, first>>

\* the graph runs node `name`, whose result is r, and follows its edge
RunNode(name, r) ==
    /\ pc = name
    /\ ran' = Append(ran, name)
    /\ IF r.ok
       THEN state' = r.val /\ pc' = Edges[name]
       ELSE state' = [state EXCEPT !.raised = r.err] /\ pc' = "raised"
    /\ UNCHANGED <<client, stub, now, rows, nextId, last, first>>

RouteIntent == pc = "route_intent" /\ RunNode("route_intent", node_route_intent(state))
Extract == pc = "extract" /\ RunNode("extract", node_extract(state))
Compliance == pc = "compliance" /\ RunNode("compliance", node_compliance(state))
Respond == pc = "respond" /\ RunNode("respond", node_respond(state))

\* what `first` holds once a chat answered with r
Remember(r) == IF first.status = 0 THEN r ELSE first

\* agent_chat, after agent_app.invoke returned
ChatReturn ==
    /\ pc = END
    /\ last' = [kind |-> "chat", message |-> state.user_message.v, status |-> 200,
                body |-> ChatBody(state), ran |-> ran]
    /\ first' = Remember([status |-> 200, message |-> state.user_message.v,
                           body |-> ChatBody(state)])
    /\ pc' = "idle"
    /\ state' = NoState
    /\ ran' = << >>
    /\ UNCHANGED <<client, stub, now, rows, nextId>>

\* agent_chat, when a node raised: the exception reaches the caller as a 500
ChatRaise ==
    /\ pc = "raised"
    /\ last' = [kind |-> "chat", message |-> state.user_message.v, status |-> 500,
                body |-> D(<< <<"detail", S(state.raised)>> >>), ran |-> ran]
    /\ first' = Remember([status |-> 500, message |-> state.user_message.v,
                           body |-> D(<< <<"detail", S(state.raised)>> >>)])
    /\ pc' = "idle"
    /\ state' = NoState
    /\ ran' = << >>
    /\ UNCHANGED <<client, stub, now, rows, nextId>>

\* log_interaction
LogInteraction(draft) ==
    /\ LET filled == FilledDraft(draft)
       IN IF filled.ok
          THEN /\ rows' = tool_log_interaction(rows, filled.val, nextId)
               /\ nextId' = nextId + 1
               /\ last' = [kind |-> "log", draft |-> draft, status |-> 200,
                           item |-> to_dict(rows'[Find(rows', nextId)])]
          ELSE /\ UNCHANGED <<rows, nextId>>
               /\ last' = [kind |-> "log", draft |-> draft, status |-> 500,
                           item |-> D(<< <<"detail", S(filled.err)>> >>)]
    /\ UNCHANGED <<client, stub, now, pc, state, ran, first>>

\* edit_interaction
EditInteraction(interaction_id, patch) ==
    /\ LET done == tool_edit_interaction(rows, interaction_id, patch)
       IN /\ rows' = done.table
          /\ IF Truthy(Get(done.ret, "ok", None))
             THEN last' = [kind |-> "edit", id |-> interaction_id, patch |-> patch,
                           status |-> 200,
                           item |-> to_dict(rows'[Find(rows', interaction_id)])]
             ELSE last' = [kind |-> "edit", id |-> interaction_id, patch |-> patch,
                           status |-> 404,
                           item |-> D(<< <<"detail", S("Interaction not found")>> >>)]
    /\ UNCHANGED <<client, stub, now, nextId, pc, state, ran, first>>

\* list_interactions
ListInteractions ==
    /\ \E p \in Orderings(rows) :
          last' = [kind |-> "list", status |-> 200, items |-> ListItems(rows, p)]
    /\ UNCHANGED <<client, stub, now, rows, nextId, pc, state, ran, first>>

NextChat ==
    \/ Tick
    \/ \E t \in ThreadIds, m \in Messages : ChatStart(t, m)
    \/ RouteIntent
    \/ Extract
    \/ Compliance
    \/ Respond
    \/ ChatReturn
    \/ ChatRaise

NextStore ==
    \/ Tick
    \/ \E d \in LogDrafts : Len(rows) < MaxStoreRows /\ LogInteraction(d)
    \/ \E i \in StoreEditIds, p \in Patches : EditInteraction(i, p)
    \/ ListInteractions

\* chat, log, edit and list requests interleaved
Next ==
    \/ Tick
    \/ \E m \in CoreMessages : ChatStart(None, m)
    \/ RouteIntent
    \/ Extract
    \/ Compliance
    \/ Respond
    \/ ChatReturn
    \/ ChatRaise
    \/ \E d \in CoreDrafts : Len(rows) < MaxRows /\ LogInteraction(d)
    \/ \E i \in CoreEditIds, p \in CorePatches : EditInteraction(i, p)
    \/ ListInteractions

Spec == Init /\ [][Next]_vars
SpecChat == InitChat /\ [][NextChat]_vars
SpecStore == Init /\ [][NextStore]_vars

-----------------------------------------------------------------------------
(* Properties of the chat pipeline, checked under SpecChat *)

Pipeline == <<"route_intent", "extract", "compliance", "respond">>

IsPrefixSeq(a, b) == Len(a) <= Len(b) /\ SubSeq(b, 1, Len(a)) = a

IsPrefixStr(a, b) == Len(a) <= Len(b) /\ SubSeq(b, 1, Len(a)) = a

EndsWith(s, suffix) ==
    Len(suffix) <= Len(s) /\ SubSeq(s, Len(s) - Len(suffix) + 1, Len(s)) = suffix

\* the draft of the invocation in flight, once node_extract has built it
DraftBuilt == pc \in {"compliance", "respond", END} \/ (pc = "raised" /\ Len(ran) > 2)

Draft == Get(state.extracted, "draft", None)

\* C1, as stated: every chat invocation runs the four stages once each, in the
\* order route_intent, extract, compliance, respond, and then reaches the
\* terminal state.
C1_EveryInvocationRunsAllFour ==
    last.kind = "chat" => (last.status = 200 /\ last.ran = Pipeline)

\* C1, amended: the stages an invocation has entered are always an initial part
\* of route_intent, extract, compliance, respond, the stage in flight is the
\* next one of that order whatever the classified intent, the terminal state
\* is reached only with all four run once each, and an invocation that raises
\* ends at the stage that raised without running a later one.
C1_FixedOrder ==
    /\ IsPrefixSeq(ran, Pipeline)
    /\ pc \in {"route_intent", "extract", "compliance", "respond"}
          => (Len(ran) < Len(Pipeline) /\ pc = Pipeline[Len(ran) + 1])
    /\ pc = END => ran = Pipeline
    /\ pc = "raised" => Len(ran) >= 1
    /\ (pc # "idle" /\ Len(ran) >= 1) => state.intent.v \in {"log", "edit"}
    /\ last.kind = "chat" =>
          /\ IsPrefixSeq(last.ran, Pipeline)
          /\ Len(last.ran) >= 1
          /\ last.status = 200 => last.ran = Pipeline

\* a chat classified as an edit ran the same four stages to the terminal state
C1_Witness ==
    /\ last.kind = "chat"
    /\ last.status = 200
    /\ last.message = M_edit
    /\ last.ran = Pipeline

\* C2, as stated: with a credential configured, whatever the model replies to
\* the two prompts, no node fails outward and the invocation ends with an
\* assistant message and a draft record.
C2_OnlyConfigurationFails ==
    (client /\ last.kind = "chat") =>
        /\ last.status = 200
        /\ Truthy(Get(last.body, "assistant_message", None))
        /\ Truthy(Get(last.body, "draft_interaction", None))

\* whether a reply is the object the extraction prompt asks for
RequestedObject(out) ==
    /\ JsonLoads(out).ok
    /\ JsonLoads(out).val.t = "dict"
    /\ HasKey(JsonLoads(out).val, "summary")
    /\ HasKey(JsonLoads(out).val, "entities")
    /\ Get(JsonLoads(out).val, "entities", None).t = "dict"

\* C3, as stated: when the model's reply is not the requested summary/entities
\* object, the extraction stage does not raise, its summary is a prefix of the
\* input of at most 180 characters and its entities mapping is empty.
C3_FallbackForEveryOtherReply ==
    (client /\ ~RequestedObject(stub.extract) /\ pc # "idle" /\ Len(ran) >= 2) =>
        /\ DraftBuilt
        /\ Get(Draft, "ai_summary", None).t = "str"
        /\ IsPrefixStr(Get(Draft, "ai_summary", None).v, state.user_message.v)
        /\ Len(Get(Draft, "ai_summary", None).v) <= 180
        /\ Get(Draft, "ai_entities_json", None) = S("{}")

\* the flags and the severity node_respond reads from a compliance result
FlagsRead == PyOr(Get(state.compliance, "flags", None), L(<< >>))
SeverityRead == PyOr(Get(state.compliance, "severity", None), S("low"))

\* a flags list: a list of flag names
IsFlagList(x) == x.t = "list" /\ \A i \in 1..Len(x.v) : x.v[i].t = "str"

Composed == pc = END /\ state.compliance.t = "dict" /\ IsFlagList(FlagsRead)

Message == state.assistant_message.v

\* C4: a composed message has no compliance warning line when the flags are
\* empty or exactly ["parse_error"]; for every other flags list it has one,
\* giving the severity and each flag verbatim; and it always holds the
\* acknowledgment line, the advisor's recommendation for the draft's channel
\* and, last, the save-or-edit instruction.
C4_WarningLine ==
    Composed =>
        /\ (Len(FlagsRead.v) = 0 \/ FlagsRead.v = <<S("parse_error")>>)
              => ~Contains(Message, "Compliance flags")
        /\ (Len(FlagsRead.v) > 0 /\ FlagsRead.v # <<S("parse_error")>>)
              => /\ Contains(Message, "Compliance flags (" \o SeverityRead.v \o "): ")
                 /\ \A i \in 1..Len(FlagsRead.v) : Contains(Message, FlagsRead.v[i].v)
        /\ IsPrefixStr("[ok] I extracted a draft interaction and filled the form fields.\n",
                       Message)
        /\ Contains(Message,
              IF Lower(Get(Draft, "channel", S("")).v) \in {"email", "whatsapp"}
              THEN "Next best action: Send a balanced follow-up message with approved materials and confirm next meeting date.\n"
              ELSE "Next best action: Schedule a follow-up visit/call and share approved clinical summary + address any objections.\n")
        /\ EndsWith(Message,
              "If this looks correct, click **Save Interaction** in the UI. If not, edit the fields and save.")

\* a message composed for two real flags carries the warning line
C4_Witness ==
    /\ Composed
    /\ FlagsRead.v = <<S("off_label"), S("pii_risk")>>
    /\ Contains(Message, "Compliance flags (high): off_label, pii_risk\n")

\* C9, as stated: in the draft node_extract builds, each of the ten entity
\* fields is a string, never null, channel is never empty, and raw_notes is
\* the user message.
C9_EntityFieldsAreStrings ==
    (DraftBuilt /\ pc # "raised") =>
        /\ \A i \in 1..Len(EntityFields) : Get(Draft, EntityFields[i], None).t = "str"
        /\ Get(Draft, "channel", None) # S("")
        /\ Get(Draft, "raw_notes", None) = state.user_message

-----------------------------------------------------------------------------
(* Properties of the edit and log endpoints, checked under SpecStore *)

\* a step in which a request of the given kind completes: it is the step that
\* records the request and its response in `last`
Completes(kind) == last' # last /\ last'.kind = kind

Columns ==
    {"id", "hcp_name", "specialty", "organization", "interaction_datetime", "channel",
     "purpose", "products_discussed", "key_points", "outcome", "next_steps",
     "follow_up_date", "raw_notes", "ai_summary", "ai_entities_json",
     "compliance_flags_json", "created_at", "updated_at"}

\* the fields an edit recognizes (section 4.8 of the specification)
Recognized == Columns \ {"id", "created_at", "updated_at"}

\* whether a patch entry <<k, v>> is ignored: an unrecognized field name, or
\* the timestamp field with a string that is no ISO date
Ignored(entry) ==
    \/ entry[1] \notin Recognized
    \/ /\ entry[1] = "interaction_datetime"
       /\ entry[2].t = "str"
       /\ ~FromIsoFormat(ReplaceZ(entry[2].v)).ok

\* the value a patch entry that is not ignored gives its field
Applied(entry) ==
    IF entry[1] = "interaction_datetime" /\ entry[2].t = "str"
    THEN FromIsoFormat(ReplaceZ(entry[2].v)).val
    ELSE IF entry[2].t = "none" THEN S("") ELSE entry[2]

\* the value of column c after a successful edit of row with patch
Expected(row, patch, c) ==
    IF \E n \in 1..Len(patch.v) : patch.v[n][1] = c /\ ~Ignored(patch.v[n])
    THEN Applied(patch.v[CHOOSE n \in 1..Len(patch.v) : patch.v[n][1] = c /\ ~Ignored(patch.v[n])])
    ELSE row[c]

\* C6: an edit of an existing record reports success, stamps updated_at, and
\* gives every other field the value of its recognized patch entry if there is
\* one and leaves it unchanged otherwise; so a patch whose entries are all
\* ignored changes nothing but updated_at.
C6_IgnoredEntriesLeaveTheRecord ==
    [][(Completes("edit") /\ last'.id \in Ids(rows)) =>
          LET old == rows[Find(rows, last'.id)]
              new == rows'[Find(rows, last'.id)]
              patch == last'.patch
          IN /\ last'.status = 200
             /\ Len(rows') = Len(rows)
             /\ new.updated_at = DT(now)
             /\ \A c \in Columns \ {"updated_at"} : new[c] = Expected(old, patch, c)
             /\ (\A n \in 1..Len(patch.v) : Ignored(patch.v[n])) =>
                   \A c \in Columns \ {"updated_at"} : new[c] = old[c]]_vars

\* an edit whose only entry is a non-ISO timestamp succeeded on a record logged
\* earlier: the timestamp field is as logged and updated_at is the time of the edit
C6_Witness ==
    /\ last.kind = "edit"
    /\ last.status = 200
    /\ last.patch = P_baddate
    /\ \E j \in 1..Len(rows) :
          /\ rows[j].id.v = last.id
          /\ rows[j].updated_at.v > rows[j].created_at.v
          /\ rows[j].interaction_datetime = rows[j].created_at

\* C7: an edit of an identifier no record has answers not-found and writes
\* nothing: every record, updated_at included, is as before.
C7_NotFoundWritesNothing ==
    [][(Completes("edit") /\ last'.id \notin Ids(rows)) =>
          /\ last'.status = 404
          /\ rows' = rows
          /\ nextId' = nextId]_vars

\* an edit of an unknown identifier answered not-found while a record logged
\* before the clock advanced is in the table
C7_Witness ==
    /\ last.kind = "edit"
    /\ last.status = 404
    /\ last.id \notin Ids(rows)
    /\ Len(rows) > 0
    /\ rows[1].updated_at.v < now

\* C8, as stated: a log request with raw notes and no derived fields always
\* adds one row, whatever the model replies, and that row has a non-empty
\* summary, entities and compliance flags.
C8_LogAlwaysPersists ==
    (client /\ last.kind = "log" /\ last.draft = D_notes) =>
        /\ last.status = 200
        /\ \E j \in 1..Len(rows) :
              /\ rows[j].id = Get(last.item, "id", None)
              /\ Truthy(rows[j].ai_summary)
              /\ Truthy(rows[j].ai_entities_json)
              /\ Truthy(rows[j].compliance_flags_json)

-----------------------------------------------------------------------------
(* Properties of interleaved requests, checked under Spec *)

\* a chat response body without the time stamp of its draft
Unstamped(body) ==
    IF HasKey(body, "draft_interaction") /\ HasKey(Get(body, "draft_interaction", None), "interaction_datetime")
    THEN SetItem(body, "draft_interaction",
                 SetItem(Get(body, "draft_interaction", None), "interaction_datetime", None))
    ELSE body

Rerun == last.kind = "chat" /\ first.status # 0 /\ last.message = first.message

\* C5, as stated: a chat on the message of an earlier chat answers with the
\* same draft, interaction_datetime included, and the same assistant message.
C5_IdenticalReruns ==
    Rerun => (last.status = first.status /\ last.body = first.body)

\* C5, amended: a chat on the message of an earlier chat answers with the same
\* assistant message and the same draft in every field but
\* interaction_datetime, whatever requests ran in between.
C5_IdenticalButTimestamp ==
    Rerun => (last.status = first.status /\ Unstamped(last.body) = Unstamped(first.body))

\* a rerun answered after a record was logged, with a later time stamp
C5_Witness ==
    /\ Rerun
    /\ last.status = 200
    /\ last.body # first.body
    /\ Len(rows) > 0

\* an edit of identifier i changes no other row, no identifier and no created_at
EditFrame(i) ==
    /\ Len(rows') = Len(rows)
    /\ \A j \in 1..Len(rows) :
          /\ rows[j].id.v # i => rows'[j] = rows[j]
          /\ rows'[j].id = rows[j].id
          /\ rows'[j].created_at = rows[j].created_at

\* a log adds one row, under an identifier no other row has
LogAdds ==
    /\ Len(rows') = Len(rows) + 1
    /\ SubSeq(rows', 1, Len(rows)) = rows
    /\ rows'[Len(rows')].id.v \notin Ids(rows)

\* C10, as stated: a chat or list request leaves the table unchanged, a log
\* request adds exactly one row under a fresh identifier, an edit modifies
\* only the targeted row and never its identifier or created_at.
C10_OnlySaveAndEdit ==
    [][/\ Completes("log") => LogAdds
       /\ Completes("edit") => EditFrame(last'.id)
       /\ (~Completes("log") /\ ~Completes("edit")) => rows' = rows
       /\ Len(rows') >= Len(rows)]_vars

\* C10, amended: a chat or list request leaves the table unchanged, a log
\* request that succeeds adds exactly one row under a fresh identifier and one
\* that fails adds none, an edit modifies only the targeted row and never its
\* identifier or created_at, and no row is ever removed.
C10_OnlySuccessfulSaveAndEdit ==
    [][/\ Completes("log") => IF last'.status = 200 THEN LogAdds ELSE rows' = rows
       /\ Completes("edit") => EditFrame(last'.id)
       /\ (~Completes("log") /\ ~Completes("edit")) => rows' = rows
       /\ Len(rows') >= Len(rows)]_vars

\* while a chat invocation is in flight, an edit changed the first of two rows
C10_Witness ==
    /\ pc \in {"extract", "compliance", "respond"}
    /\ last.kind = "edit"
    /\ last.status = 200
    /\ last.id = 1
    /\ Len(rows) = 2
    /\ rows[1].channel = S("call")
    /\ rows[2].channel = S("in_person")

====
